---- MODULE Spec2Model ----
(***************************************************************************)
(* Model of main.py: automated monitoring of web services.                 *)
(*                                                                         *)
(* One run of main() reads the service rows from the Notion database,      *)
(* probes every service with an HTTP GET, classifies the response into a   *)
(* status label, writes the label back to the row and sends a WhatsApp     *)
(* message when the label differs from the one read at the start of the    *)
(* run.  Python strings that are inspected character by character (the     *)
(* response text and the identifier) are sequences of one-character        *)
(* strings; the labels are TLA+ strings.                                   *)
(***************************************************************************)
EXTENDS Integers, Sequences, FiniteSets, TLC

VARIABLES
    \* ---- the Notion database and the process running main() ----
    db,          \* service id -> row of the Notion database
    pc,          \* position of the process in main()
    run,         \* number of the current run of main()
    services,    \* value returned by get_services_to_monitor()
    i,           \* index of the loop of main() into services
    status,      \* local variable status of main()
    exitCode,    \* exit code of the process once it has ended
    crashedIn,   \* function the uncaught exception of this run came from
    stdout,      \* whether "Something went wrong." was printed in this run
    \* ---- history of one service, any of them, over this and the last run ----
    watched,     \* id of the service whose history is kept
    probe,       \* result of requests.get for it in this run
    computed,    \* status get_status returned for it in this run
    patched,     \* outcome of requests.patch for it in this run
    sent,        \* messages Twilio accepted for it in this run
    completed,   \* whether its loop iteration ran to its end in this run
    prevProbe,   \* probe of the previous run
    prevPatched, \* patched of the previous run
    unnotified,  \* status of a persisted change of it nobody was told of
    \* ---- one call of get_status on arbitrary inputs ----
    cService,    \* the service dict handed to get_status
    cResponse,   \* what requests.get produced
    cResult      \* what get_status produced, Pending before the call

runVars == <<db, pc, run, services, i, status, exitCode, crashedIn, stdout,
             watched, probe, computed, patched, sent, completed,
             prevProbe, prevPatched, unnotified>>

classifyVars == <<cService, cResponse, cResult>>

vars == <<runVars, classifyVars>>

-----------------------------------------------------------------------------
(* Bounds *)

\* number of rows of the Notion database
NumServices == 2
\* number of runs of main() that are followed
MaxRuns == 2
\* longest response text handed to get_status on its own
MaxBodyLen == 2
\* longest identifier handed to get_status on its own
MaxIdLen == 2

-----------------------------------------------------------------------------
(* Python values *)

\* the value of a bare return
NoneValue == "<None>"
\* outcome of a call that ended in an uncaught exception
Raised == "<exception>"
\* the call has not been made
Pending == "<pending>"

\* the five strings get_status returns
Labels == {"Operational", "Doubtful", "Warning", "Maintenance", "Down"}

\* characters of the texts that are searched
Alphabet == {"o", "O", "k", "K"}

\* str.lower() on one character
LowerChar(c) ==
    CASE c = "O" -> "o"
      [] c = "K" -> "k"
      [] OTHER -> c

\* str.lower()
Lower(s) == [k \in 1..Len(s) |-> LowerChar(s[k])]

\* needle in hay, for Python strings
Contains(needle, hay) ==
    \E k \in 0..(Len(hay) - Len(needle)) :
        SubSeq(hay, k + 1, k + Len(needle)) = needle

\* all sequences over S of length lo..hi
SeqsUpTo(S, lo, hi) == UNION {[1..n -> S] : n \in lo..hi}

-----------------------------------------------------------------------------
(* requests.get and get_status *)

\* requests.get returned a Response
Response(code, text) == [kind |-> "response", status_code |-> code, text |-> text]
\* the response object is None
NoResponse == [kind |-> "none", status_code |-> 0, text |-> <<>>]
\* requests.get raised (connection refused, timeout, DNS failure)
GetRaised == [kind |-> "raise", status_code |-> 0, text |-> <<>>]

\* get_status with a response without the lower() calls of line 78
get_status_case_sensitive(service, response) ==
    IF response.kind = "raise" THEN Raised
    ELSE IF response.kind # "none" THEN
        LET status_code == response.status_code
            response_body == response.text
        IN  IF status_code >= 200 /\ status_code < 400
               /\ Contains(service.identifier, response_body)
            THEN "Operational"
            ELSE IF status_code >= 200 /\ status_code < 400 THEN "Doubtful"
            ELSE IF status_code >= 400 /\ status_code < 500 THEN "Warning"
            ELSE IF status_code = 503 THEN "Maintenance"
            ELSE "Down"
    ELSE NoneValue

\* get_status whose last branch returns a string that is no label
get_status_unknown(service, response) ==
    IF response.kind = "raise" THEN Raised
    ELSE IF response.kind # "none" THEN
        LET status_code == response.status_code
            response_body == response.text
        IN  IF status_code >= 200 /\ status_code < 400
               /\ Contains(Lower(service.identifier), Lower(response_body))
            THEN "Operational"
            ELSE IF status_code >= 200 /\ status_code < 400 THEN "Doubtful"
            ELSE IF status_code >= 400 /\ status_code < 500 THEN "Warning"
            ELSE IF status_code = 503 THEN "Maintenance"
            ELSE "Unknown"
    ELSE NoneValue

\* get_status(service), given what requests.get(service['url']) produced:
\* an exception of requests.get is not caught, a None response returns None
get_status(service, response) ==
    IF response.kind = "raise" THEN Raised
    ELSE IF response.kind # "none" THEN
        LET status_code == response.status_code
            response_body == response.text
        IN  IF status_code >= 200 /\ status_code < 400
               /\ Contains(Lower(service.identifier), Lower(response_body))
            THEN "Operational"
            ELSE IF status_code >= 200 /\ status_code < 400 THEN "Doubtful"
            ELSE IF status_code >= 400 /\ status_code < 500 THEN "Warning"
            ELSE IF status_code = 503 THEN "Maintenance"
            ELSE "Down"
    ELSE NoneValue

-----------------------------------------------------------------------------
(* The Notion database and get_services_to_monitor *)

\* ids of the rows
ServiceIds == 1..NumServices

\* content of the URL title of row s
Url(s) == <<"https://service", s>>

\* content of the Identifier rich text of row s
Identifier(s) == IF s % 2 = 1 THEN <<"O", "K">> ELSE <<"k">>

\* item['properties'] has no usable Status: the lookup of line 58 raises KeyError
StatusAbsent == [shape |-> "absent", name |-> ""]
\* item['properties']['Status']['select'] is null: the lookup raises TypeError
StatusNull == [shape |-> "null", name |-> ""]
\* item['properties']['Status']['select']['name'] is n
StatusNamed(n) == [shape |-> "name", name |-> n]

\* a row of the database as the query returns it
Item(s, st) == [id |-> s, url |-> Url(s), identifier |-> Identifier(s), status |-> st]

\* the status an observer of the database sees for a row, '' when none is set
Recorded(item) == IF item.status.shape = "name" THEN item.status.name ELSE ""

\* the response of requests.post to the database query
SourceResponses ==
    {[kind |-> "response", status_code |-> c] : c \in {200, 401, 500}}
        \cup {[kind |-> "raise", status_code |-> 0]}

\* the service dict built from one item (lines 48-60)
ServiceOf(item) ==
    [id |-> item.id, url |-> item.url, identifier |-> item.identifier,
     last_recorded_status |-> IF item.status.shape = "absent" THEN ""
                              ELSE item.status.name]

\* result of a call: returned a list, returned None, or raised exc
Returned(list, printed) == [exc |-> "", isNone |-> FALSE, list |-> list, printed |-> printed]
ReturnedNone(printed) == [exc |-> "", isNone |-> TRUE, list |-> <<>>, printed |-> printed]
RaisedExc(exc) == [exc |-> exc, isNone |-> FALSE, list |-> <<>>, printed |-> FALSE]
NotCalled == [exc |-> "", isNone |-> FALSE, list |-> <<>>, printed |-> FALSE]

\* get_services_to_monitor that answers a failed query with an empty list
get_services_to_monitor_empty(response, items) ==
    IF response.kind = "raise" THEN RaisedExc("ConnectionError")
    ELSE IF response.status_code = 200 THEN
        IF \E s \in DOMAIN items : items[s].status.shape = "null"
        THEN RaisedExc("TypeError")
        ELSE Returned([s \in DOMAIN items |-> ServiceOf(items[s])], FALSE)
    ELSE Returned(<<>>, TRUE)

\* get_services_to_monitor(), given the response of the query and the rows:
\* a status other than 200 prints "Something went wrong." and returns None,
\* only KeyError is caught around the lookup of the recorded status
get_services_to_monitor(response, items) ==
    IF response.kind = "raise" THEN RaisedExc("ConnectionError")
    ELSE IF response.status_code = 200 THEN
        IF \E s \in DOMAIN items : items[s].status.shape = "null"
        THEN RaisedExc("TypeError")
        ELSE Returned([s \in DOMAIN items |-> ServiceOf(items[s])], FALSE)
    ELSE ReturnedNone(TRUE)

-----------------------------------------------------------------------------
(* update_service_status and send_notification *)

\* update_service_status that sends the request but leaves the row as it was
update_service_status_stale(items, service, st) == items

\* the rows after the PATCH of update_service_status was applied by Notion
update_service_status(items, service, st) ==
    [items EXCEPT ![service.id].status = StatusNamed(st)]

\* the body of the message (line 133)
MessageBody(service, st) == <<"Status for ", service.url, " is ", st, ".">>

\* send_notification without the comparison of line 126
send_notification_always(service, st) ==
    [create |-> TRUE, body |-> MessageBody(service, st)]

\* send_notification(service, status): whether client.messages.create is
\* called, and with which body
send_notification(service, st) ==
    IF service.last_recorded_status # st
    THEN [create |-> TRUE, body |-> MessageBody(service, st)]
    ELSE [create |-> FALSE, body |-> <<>>]

-----------------------------------------------------------------------------
(* One call of get_status on arbitrary inputs *)

\* status codes around every boundary of the branches of get_status
StatusCodes == {100, 199, 200, 399, 400, 499, 500, 502, 503, 504, 600}

\* what requests.get can produce for the call
ClassifyResponses ==
    {Response(c, b) : c \in StatusCodes, b \in SeqsUpTo(Alphabet, 0, MaxBodyLen)}
        \cup {NoResponse, GetRaised}

\* requests.get was not called for the service in the run
Unprobed == [kind |-> "unprobed", status_code |-> 0, text |-> <<>>]

\* the process has not started and nothing is known of any service
RunIdle ==
    /\ pc = "start" /\ run = 1 /\ services = NotCalled /\ i = 0
    /\ status = Pending /\ exitCode = -1 /\ crashedIn = "" /\ stdout = FALSE
    /\ probe = Unprobed /\ computed = Pending /\ patched = Pending
    /\ sent = 0 /\ completed = FALSE
    /\ prevProbe = Unprobed /\ prevPatched = Pending
    /\ unnotified = NoneValue

InitClassify ==
    /\ db = [s \in ServiceIds |-> Item(s, StatusAbsent)]
    /\ watched = 1
    /\ RunIdle
    /\ \E ident \in SeqsUpTo(Alphabet, 1, MaxIdLen) :
          cService = [id |-> 1, url |-> Url(1), identifier |-> ident,
                      last_recorded_status |-> ""]
    /\ cResponse \in ClassifyResponses
    /\ cResult = Pending

\* status = get_status(service)
Classify ==
    /\ cResult = Pending
    /\ cResult' = get_status(cService, cResponse)
    /\ UNCHANGED <<cService, cResponse>>
    /\ UNCHANGED runVars

NextClassify == Classify

SpecClassify == InitClassify /\ [][NextClassify]_vars

-----------------------------------------------------------------------------
(* Runs of main() *)

\* what requests.get can produce for a service during a run
RunResponses ==
    {Response(200, <<"o", "k">>), Response(200, <<>>), Response(500, <<>>), GetRaised}

\* the states the Status select of a row is in before the first run
InitialStatuses == {StatusAbsent, StatusNull}

Init ==
    /\ \E st \in [ServiceIds -> InitialStatuses] :
          db = [s \in ServiceIds |-> Item(s, st[s])]
    /\ watched \in ServiceIds
    /\ RunIdle
    /\ cService = ServiceOf(Item(1, StatusAbsent))
    /\ cResponse = Unprobed
    /\ cResult = Pending

\* an exception nothing catches ends the process with a traceback
Crash(where) ==
    /\ pc' = "crashed"
    /\ crashedIn' = where
    /\ exitCode' = 1

\* services = get_services_to_monitor(); for service in services: (lines 142-143)
FetchServices ==
    /\ pc = "start"
    /\ \E response \in SourceResponses :
          LET r == get_services_to_monitor(response, db) IN
          /\ services' = r
          /\ stdout' = r.printed
          /\ IF r.exc # "" THEN Crash("get_services_to_monitor") /\ i' = i
             ELSE IF r.isNone THEN Crash("main") /\ i' = i
             ELSE IF Len(r.list) = 0
                  THEN pc' = "done" /\ exitCode' = 0 /\ i' = i /\ crashedIn' = crashedIn
                  ELSE pc' = "get_status" /\ i' = 1
                       /\ UNCHANGED <<exitCode, crashedIn>>
    /\ UNCHANGED <<db, run, status, watched, probe, computed, patched, sent,
                   completed, prevProbe, prevPatched, unnotified>>
    /\ UNCHANGED classifyVars

\* status = get_status(service) (line 144)
GetStatus ==
    /\ pc = "get_status"
    /\ \E response \in RunResponses :
          LET service == services.list[i]
              st == get_status(service, response) IN
          /\ probe' = IF service.id = watched THEN response ELSE probe
          /\ IF st = Raised
             THEN Crash("get_status") /\ UNCHANGED <<status, computed>>
             ELSE /\ status' = st
                  /\ computed' = IF service.id = watched THEN st ELSE computed
                  /\ pc' = "update_service_status"
                  /\ UNCHANGED <<exitCode, crashedIn>>
    /\ UNCHANGED <<db, run, services, i, stdout, watched, patched, sent, completed,
                   prevProbe, prevPatched, unnotified>>
    /\ UNCHANGED classifyVars

\* update_service_status(service, status) (line 145): the response of
\* requests.patch is not looked at, an exception of it is not caught
UpdateServiceStatus ==
    /\ pc = "update_service_status"
    /\ \E outcome \in {"applied", "rejected", "raise"} :
          LET service == services.list[i] IN
          /\ patched' = IF service.id = watched THEN outcome ELSE patched
          /\ IF outcome = "applied"
             THEN /\ db' = update_service_status(db, service, status)
                  /\ unnotified' =
                        IF service.id = watched /\ Recorded(db[service.id]) # status
                        THEN status
                        ELSE unnotified
             ELSE UNCHANGED <<db, unnotified>>
          /\ IF outcome = "raise"
             THEN Crash("update_service_status")
             ELSE pc' = "send_notification" /\ UNCHANGED <<exitCode, crashedIn>>
    /\ UNCHANGED <<run, services, i, status, stdout, watched, probe, computed, sent,
                   completed, prevProbe, prevPatched>>
    /\ UNCHANGED classifyVars

\* the loop of main() goes to the next service, or main() returns
Advance(service) ==
    /\ completed' = (completed \/ service.id = watched)
    /\ IF i < Len(services.list)
       THEN i' = i + 1 /\ pc' = "get_status" /\ exitCode' = exitCode
       ELSE i' = i /\ pc' = "done" /\ exitCode' = 0
    /\ crashedIn' = crashedIn

\* send_notification(service, status) (line 147): client.messages.create
\* is called when the status differs, an exception of it is not caught
SendNotification ==
    /\ pc = "send_notification"
    /\ LET service == services.list[i]
           request == send_notification(service, status) IN
       IF request.create
       THEN \E outcome \in {"accepted", "raise"} :
              IF outcome = "accepted"
              THEN /\ sent' = IF service.id = watched THEN sent + 1 ELSE sent
                   /\ unnotified' =
                         IF /\ service.id = watched
                            /\ request.body = MessageBody(service, unnotified)
                         THEN NoneValue
                         ELSE unnotified
                   /\ Advance(service)
              ELSE /\ Crash("send_notification")
                   /\ UNCHANGED <<sent, unnotified, completed, i>>
       ELSE /\ Advance(service)
            /\ UNCHANGED <<sent, unnotified>>
    /\ UNCHANGED <<db, run, services, status, stdout, watched, probe, computed,
                   patched, prevProbe, prevPatched>>
    /\ UNCHANGED classifyVars

\* the external trigger starts main() again in a new process
NextRun ==
    /\ pc \in {"done", "crashed"}
    /\ run < MaxRuns
    /\ run' = run + 1
    /\ pc' = "start" /\ services' = NotCalled /\ i' = 0
    /\ status' = Pending /\ exitCode' = -1 /\ crashedIn' = "" /\ stdout' = FALSE
    /\ prevProbe' = probe /\ prevPatched' = patched
    /\ probe' = Unprobed /\ computed' = Pending /\ patched' = Pending
    /\ sent' = 0 /\ completed' = FALSE
    /\ UNCHANGED <<db, watched, unnotified>>
    /\ UNCHANGED classifyVars

Next ==
    \/ FetchServices
    \/ GetStatus
    \/ UpdateServiceStatus
    \/ SendNotification
    \/ NextRun

Spec == Init /\ [][Next]_vars

-----------------------------------------------------------------------------
(* Claims about get_status, checked under SpecClassify *)

\* two characters that are the same letter in either case
SameLetter(c, d) ==
    \/ c = d
    \/ {c, d} \in {{"o", "O"}, {"k", "K"}}

\* ident occurs in body at some offset, letters compared regardless of case
OccursIgnoringCase(ident, body) ==
    \E off \in 0..(Len(body) - Len(ident)) :
        \A k \in 1..Len(ident) : SameLetter(ident[k], body[off + k])

\* the reference table of the classification, in precedence order
ReferenceLabel(code, body, ident) ==
    CASE code >= 200 /\ code < 400 /\ OccursIgnoringCase(ident, body) -> "Operational"
      [] code >= 200 /\ code < 400 /\ ~OccursIgnoringCase(ident, body) -> "Doubtful"
      [] code >= 400 /\ code < 500 -> "Warning"
      [] code = 503 -> "Maintenance"
      [] OTHER -> "Down"

\* C2: for every obtained response (status code, body) and every non-empty
\* identifier, get_status returns the label of the reference table:
\* Operational for 200..399 with the identifier in the body regardless of
\* case, Doubtful for 200..399 otherwise, Warning for 400..499, Maintenance
\* for 503, Down for every other code.
C2_MatchesReferenceTable ==
    (cResult # Pending /\ cResponse.kind = "response" /\ Len(cService.identifier) > 0)
        => cResult = ReferenceLabel(cResponse.status_code, cResponse.text,
                                    cService.identifier)

\* C2 witness: identifier "OK" found in the body "ok" of a 200 response,
\* which a case-sensitive search would miss.
C2_Witness ==
    /\ cResult = "Operational"
    /\ cResponse.kind = "response" /\ cResponse.status_code = 200
    /\ cService.identifier = <<"O", "K">>
    /\ cResponse.text = <<"o", "k">>

\* C3: when the probe obtains no HTTP response at all (requests.get raised,
\* or there is no response object), get_status yields Down and no exception
\* leaves it.
C3_NoResponseIsDown ==
    (cResult # Pending /\ cResponse.kind \in {"none", "raise"})
        => cResult = "Down"

\* C6: get_status is total: for every status code with any body, and for
\* the no-response case, it returns one of the five labels, never None and
\* never an exception.
C6_Total ==
    cResult # Pending => cResult \in Labels

-----------------------------------------------------------------------------
(* Claims about runs of main(), checked under Spec *)

\* the run obtained the list of services
HasList == services.exc = "" /\ ~services.isNone /\ Len(services.list) > 0

\* the last_recorded_status of the watched service as read at the start of the run
LastRead == services.list[watched].last_recorded_status

\* the query of the database failed: it raised or its status was not 200
SourceFetchFailed == services.exc = "ConnectionError" \/ services.printed

\* C1: for every service processed in a run, a notification is sent if and
\* only if the newly computed status differs from the last recorded status
\* read at the start of that run ('' differs from every label); the update
\* written earlier in the run does not change the value compared against,
\* and at most one notification is sent per service per run.
C1_NotifiedIffChanged ==
    /\ sent <= 1
    /\ sent = 1 => (HasList /\ computed \in Labels /\ computed # LastRead)
    /\ completed => (HasList /\ (sent = 1 <=> computed # LastRead))

\* C1 witness: a service was processed to the end, its new status was
\* written to the row before the comparison, and the notification was sent
\* because the status read at the start of the run was another label.
C1_Witness ==
    /\ completed /\ sent = 1 /\ patched = "applied"
    /\ Recorded(db[watched]) = computed
    /\ LastRead \in Labels /\ LastRead # computed

\* a second witness of C1: processed to the end with an unchanged status,
\* and nothing was sent
C1_SilentWitness ==
    completed /\ sent = 0 /\ computed = LastRead

\* C4 as stated: if two consecutive runs obtain the same probe result for a
\* service, no notification for it is sent on the second run.
C4_SecondRunSilent ==
    (probe.kind = "response" /\ prevProbe = probe) => sent = 0

\* C4 as amended: if two consecutive runs obtain the same probe result for a
\* service and the status update of the first run was applied by the store,
\* the second run sends no notification for it (and no run sends more than
\* one).
C4_SecondRunSilentWhenPersisted ==
    /\ sent <= 1
    /\ (probe.kind = "response" /\ prevProbe = probe /\ prevPatched = "applied")
          => sent = 0

\* C4 witness: the second run probed the service with the same result as
\* the first, whose update was applied, and processed it to the end in silence.
C4_Witness ==
    /\ run = 2 /\ completed /\ sent = 0
    /\ probe.kind = "response" /\ prevProbe = probe /\ prevPatched = "applied"

\* C5: only a failure to fetch the services halts a run: a failure of a
\* probe, of a status update or of a notification never prevents a remaining
\* service from being processed in that run, so a run that obtained the
\* list ends with every service after the failing one probed.
C5_OnlySourceFailureHalts ==
    (HasList /\ pc \in {"done", "crashed"}) => (watched <= i /\ probe # Unprobed)

\* C7: after any sequence of runs from a valid store, the status recorded
\* for every service, as written by update_service_status and as read back
\* into last_recorded_status, is one of the five labels or ''.
C7_RecordedStatusValid ==
    /\ \A s \in ServiceIds : Recorded(db[s]) \in Labels \cup {""}
    /\ \A k \in 1..Len(services.list) :
          services.list[k].last_recorded_status \in Labels \cup {""}

\* C7 witness: a status written in the first run was read back in the second.
C7_Witness ==
    /\ run = 2 /\ HasList /\ prevPatched = "applied"
    /\ LastRead \in Labels

\* C8: when the query of the services does not succeed, the run ends in a
\* reported error (non-zero exit) and no service is probed, updated or
\* notified in it; the failure is not taken for an empty list or a success.
C8_SourceFailureIsFatal ==
    SourceFetchFailed =>
        /\ pc = "crashed" /\ exitCode # 0
        /\ i = 0 /\ status = Pending
        /\ probe = Unprobed /\ patched = Pending /\ sent = 0 /\ ~completed

\* C8 witness: the query of the second run answered with a status other
\* than 200 while the rows hold statuses of the first run.
C8_Witness ==
    /\ run = 2 /\ services.printed /\ pc = "crashed"
    /\ \E s \in ServiceIds : Recorded(db[s]) \in Labels

\* C9: for every item without a recorded status (field absent or unset),
\* get_services_to_monitor yields a record with last_recorded_status '' and
\* does not fail; the other items are returned as well.
C9_MissingStatusDefaults ==
    (pc \in {"get_status", "crashed"} /\ i <= 1 /\ ~SourceFetchFailed) =>
        /\ services.exc = ""
        /\ Len(services.list) = NumServices
        /\ \A s \in ServiceIds :
              db[s].status.shape # "name" => services.list[s].last_recorded_status = ""

\* C10: every change of a recorded status is notified: when a run persists
\* a status that differs from the one recorded before, a notification
\* carrying it is sent in that run or a later one, so a run that processed
\* the service to the end leaves no persisted change nobody was told of.
C10_EveryChangeNotified ==
    (pc = "done" /\ completed) => unnotified = NoneValue

====
